---- MODULE Spec2Model ----
(***************************************************************************)
(* Model of the bookkeeping Telegram bot (src/telegram_bot.py): the        *)
(* spreadsheet store adapter (read_sheet, push_row, update_row,            *)
(* delete_row), the add/edit wizard (process_text, ask_date, ask_name,     *)
(* ask_amount), the callback router (cb) with its undo branches, and the   *)
(* periodic reload.                                                        *)
(*                                                                         *)
(* Texts (message texts, callback arguments, sheet cells) are sequences of *)
(* one-character strings, so that parsing and formatting are computed.     *)
(* Amounts are integers counting hundredths.                               *)
(***************************************************************************)
EXTENDS Integers, Sequences, FiniteSets, TLC

VARIABLES
    SHEET,      \* TRUE iff connect_sheet() succeeded (module global SHEET)
    sheet,      \* the worksheet: sequence of used rows, header rows included
    nextId,     \* ghost: identity given to the next inserted row
    entries,    \* bot_data["entries"]: the cache, period key -> list of records
    flow,       \* user_data["flow"] of each user
    undo,       \* user_data["undo"] of each user
    undo_edit,  \* user_data["undo_edit"] of each user
    notes,      \* the confirmation messages (with undo button) sent to each user
    view,       \* the day view last rendered to each user (its row buttons)
    chats,      \* bot_data["chats"]: the reminder recipients
    now,        \* dt.datetime.utcnow(), in seconds
    last        \* ghost: what the last step did (handler, store calls, reply)

vars == <<SHEET, sheet, nextId, entries, flow, undo, undo_edit, notes, view, chats, now, last>>

(***************************************************************************)
(* Program constants                                                       *)
(***************************************************************************)
HEADER_ROWS == 4
UNDO_WINDOW == 10

(***************************************************************************)
(* Bounds of the model                                                     *)
(***************************************************************************)
MaxInserts == 2     \* push_row calls in one behaviour of the store adapter alone
MaxCommits == 2     \* wizard commits in one behaviour of the bot
MaxTime == 15       \* the clock stops here
MaxFailed == 2      \* store calls of one session that fail half way

(***************************************************************************)
(* Texts                                                                   *)
(***************************************************************************)
Digits == {"0","1","2","3","4","5","6","7","8","9"}
IsDigit(c) == c \in Digits
DigitVal(c) ==
    CASE c = "0" -> 0 [] c = "1" -> 1 [] c = "2" -> 2 [] c = "3" -> 3
      [] c = "4" -> 4 [] c = "5" -> 5 [] c = "6" -> 6 [] c = "7" -> 7
      [] c = "8" -> 8 [] c = "9" -> 9
DigitChar(n) ==
    CASE n = 0 -> "0" [] n = 1 -> "1" [] n = 2 -> "2" [] n = 3 -> "3"
      [] n = 4 -> "4" [] n = 5 -> "5" [] n = 6 -> "6" [] n = 7 -> "7"
      [] n = 8 -> "8" [] n = 9 -> "9"

AllDigits(s) == \A i \in 1..Len(s) : IsDigit(s[i])

RECURSIVE Num(_)
Num(s) == IF s = <<>> THEN 0 ELSE 10 * Num(SubSeq(s, 1, Len(s) - 1)) + DigitVal(s[Len(s)])

RECURSIVE NumText(_)
NumText(n) == IF n < 10 THEN <<DigitChar(n)>> ELSE Append(NumText(n \div 10), DigitChar(n % 10))

\* str.strip(): leading and trailing whitespace removed
RECURSIVE lstrip(_)
lstrip(s) == IF s # <<>> /\ Head(s) = " " THEN lstrip(Tail(s)) ELSE s
RECURSIVE rstrip(_)
rstrip(s) == IF s # <<>> /\ s[Len(s)] = " " THEN rstrip(SubSeq(s, 1, Len(s) - 1)) ELSE s
strip(s) == rstrip(lstrip(s))

\* str.lower() on the letters the inputs use
LowerChar(c) == CASE c = "S" -> "s" [] c = "I" -> "i" [] c = "N" -> "n" [] OTHER -> c
lower(s) == [i \in 1..Len(s) |-> LowerChar(s[i])]

\* str.replace(",", ".")
CommaToDot(s) == [i \in 1..Len(s) |-> IF s[i] = "," THEN "." ELSE s[i]]

(***************************************************************************)
(* Sample texts: what users send and what the sheet holds                   *)
(***************************************************************************)
D13 == <<"1","3",".","0","3",".","2","0","2","5">>
D14 == <<"1","4",".","0","3",".","2","0","2","5">>
D15 == <<"1","5",".","0","3",".","2","0","2","5">>
D16 == <<"1","6",".","0","3",".","2","0","2","5">>
DShort == <<"1",".","3",".","2","0","2","5">>                 \* parses, but is no DD.MM.YYYY
DBadCal == <<"3","1",".","0","2",".","2","0","2","5">>        \* DD.MM.YYYY, but no calendar date
DDashes == <<"1","5","-","0","3","-","2","0","2","5">>        \* wrong separator
TToday == <<"s","e","g","o","d","n","y","a">>                 \* the today keyword (transliterated)
TTodayCap == <<"S","e","g","o","d","n","y","a">>
TIvan == <<"I","v","a","n">>
TBob == <<"B","o","b">>
TOld == <<"O","l","d">>
TTotal == <<"T","o","t","a","l">>
T200 == <<"2","0","0">>
T250 == <<"2","5","0">>
T500 == <<"5","0","0">>
T12c5 == <<"1","2",",","5">>
TGrouped == <<"1"," ","0","0","0",",","5","0">>               \* 1 000,50
TAbc == <<"a","b","c">>
TDash == <<"-">>
TNan == <<"n","a","n">>                                       \* float("nan") is a float

T12p5 == <<"1","2",".","5">>
T007 == <<"0","0","7">>                                       \* a label made of digits

\* the texts above; parsing them is tabulated once
KnownTexts ==
    { <<>>, D13, D14, D15, D16, DShort, DBadCal, DDashes, TToday, TTodayCap, TIvan, TBob,
      TOld, TTotal, T200, T250, T500, T12c5, T12p5, TGrouped, TAbc, TDash, TNan }

\* DATE_RX.fullmatch(s.strip()) with DATE_RX = \d{2}\.\d{2}\.\d{4}$
FullMatch(s) ==
    LET t == strip(s) IN
    /\ Len(t) = 10
    /\ \A i \in {1, 2, 4, 5, 7, 8, 9, 10} : IsDigit(t[i])
    /\ t[3] = "."
    /\ t[6] = "."
FullMatchTab == [t \in KnownTexts |-> FullMatch(t)]
is_date(s) == IF s \in KnownTexts THEN FullMatchTab[s] ELSE FullMatch(s)

IsLeap(y) == (y % 4 = 0 /\ y % 100 # 0) \/ y % 400 = 0
DaysIn(y, m) ==
    IF m = 2 THEN (IF IsLeap(y) THEN 29 ELSE 28)
    ELSE IF m \in {4, 6, 9, 11} THEN 30 ELSE 31

NoDate == [ok |-> FALSE, y |-> 0, m |-> 0, d |-> 0]

\* the positions of c in s
Positions(s, c) == {i \in 1..Len(s) : s[i] = c}
MinOf(S) == CHOOSE i \in S : \A j \in S : i <= j
MaxOf(S) == CHOOSE i \in S : \A j \in S : i >= j

\* %d, %m, %Y as numbers: a day of that month of that year, years from 1
StrpValues(d, m, y) ==
    IF y >= 1 /\ m \in 1..12 /\ d >= 1 /\ d <= DaysIn(y, m)
    THEN [ok |-> TRUE, y |-> y, m |-> m, d |-> d]
    ELSE NoDate

\* %d and %m take one or two digits, %Y exactly four
StrpFields(p1, p2, p3) ==
    IF /\ Len(p1) \in {1, 2} /\ Len(p2) \in {1, 2} /\ Len(p3) = 4
       /\ AllDigits(p1) /\ AllDigits(p2) /\ AllDigits(p3)
    THEN StrpValues(Num(p1), Num(p2), Num(p3))
    ELSE NoDate

StrpSplit(s, i1, i2) ==
    StrpFields(SubSeq(s, 1, i1 - 1), SubSeq(s, i1 + 1, i2 - 1), SubSeq(s, i2 + 1, Len(s)))

\* datetime.strptime(s, "%d.%m.%Y").date(); ok = FALSE stands for ValueError
StrpTime(s) ==
    IF Cardinality(Positions(s, ".")) # 2 THEN NoDate
    ELSE StrpSplit(s, MinOf(Positions(s, ".")), MaxOf(Positions(s, ".")))

StrpTimeTab == [t \in KnownTexts |-> StrpTime(t)]
pdate(s) == IF s \in KnownTexts THEN StrpTimeTab[s] ELSE StrpTime(s)

\* order of two parsed dates
DateLeq(a, b) == a.y * 10000 + a.m * 100 + a.d <= b.y * 10000 + b.m * 100 + b.d

Two(n) == IF n < 10 THEN <<"0">> \o NumText(n) ELSE NumText(n)
Four(n) ==
    IF n < 10 THEN <<"0", "0", "0">> \o NumText(n)
    ELSE IF n < 100 THEN <<"0", "0">> \o NumText(n)
    ELSE IF n < 1000 THEN <<"0">> \o NumText(n) ELSE NumText(n)

\* d.strftime("%d.%m.%Y")
sdate(d) == Two(d.d) \o <<".">> \o Two(d.m) \o <<".">> \o Four(d.y)

\* f"{pdate(d).year}-{pdate(d).month:02d}"
PeriodKey(d) == NumText(d.y) \o <<"-">> \o Two(d.m)

\* an optional float: some = FALSE is Python's None (or a ValueError), nan = TRUE
\* is the float nan, which has no value in hundredths
None == [some |-> FALSE, v |-> 0, nan |-> FALSE]
Some(n) == [some |-> TRUE, v |-> n, nan |-> FALSE]
NaN == [some |-> TRUE, v |-> 0, nan |-> TRUE]

\* digits with single underscores between digits (Python's numeric literal rule)
DigitPart(s) ==
    /\ s # <<>>
    /\ \A i \in 1..Len(s) :
         \/ IsDigit(s[i])
         \/ /\ s[i] = "_"
            /\ i > 1 /\ i < Len(s)
            /\ IsDigit(s[i - 1]) /\ IsDigit(s[i + 1])
OnlyDigits(s) == SelectSeq(s, IsDigit)

\* the first two fractional digits as hundredths
Hundredths(f) ==
    IF f = <<>> THEN 0
    ELSE IF Len(f) = 1 THEN 10 * DigitVal(f[1])
    ELSE 10 * DigitVal(f[1]) + DigitVal(f[2])

\* the value of an integer part and a fractional part, if both are well formed
\* and one of them is not empty
FloatParts(neg, ip, fp) ==
    IF /\ (ip = <<>> \/ DigitPart(ip))
       /\ (fp = <<>> \/ DigitPart(fp))
       /\ (ip # <<>> \/ fp # <<>>)
    THEN Some((IF neg THEN 0 - 1 ELSE 1)
              * (100 * Num(OnlyDigits(ip)) + Hundredths(OnlyDigits(fp))))
    ELSE None

\* the literal u split at its point, if it has one (k is past the end if not)
FloatSplit(neg, u, k) == FloatParts(neg, SubSeq(u, 1, k - 1), SubSeq(u, k + 1, Len(u)))

\* an unsigned literal: "nan" in any case, or digits with at most one point
FloatUnsigned(neg, u) ==
    IF lower(u) = TNan THEN NaN
    ELSE IF Cardinality(Positions(u, ".")) > 1 THEN None
    ELSE IF Positions(u, ".") = {} THEN FloatSplit(neg, u, Len(u) + 1)
    ELSE FloatSplit(neg, u, MinOf(Positions(u, ".")))

FloatSigned(t) ==
    IF t # <<>> /\ Head(t) \in {"+", "-"} THEN FloatUnsigned(Head(t) = "-", Tail(t))
    ELSE FloatUnsigned(FALSE, t)

\* float(s): optional sign, then "nan" or a decimal literal (digits, optional
\* point and digits); surrounding whitespace ignored.  None stands for
\* ValueError.  (Exponents and "inf" need letters that the inputs do not use.)
PyFloat(s) == FloatSigned(strip(s))

\* float(s.replace(",", ".")), None on any exception
FloatOf(s) == PyFloat(CommaToDot(s))
FloatTab == [t \in KnownTexts |-> FloatOf(t)]
safe_float(s) == IF s \in KnownTexts THEN FloatTab[s] ELSE FloatOf(s)

(***************************************************************************)
(* The worksheet.  A row has the four columns A..D as texts; id is a ghost *)
(* identity of the row (0 for a blank row).                                *)
(***************************************************************************)
BlankRow == [date |-> <<>>, symbols |-> <<>>, amount |-> <<>>, salary |-> <<>>, id |-> 0]
IsBlank(r) == r.date = <<>> /\ r.symbols = <<>> /\ r.amount = <<>> /\ r.salary = <<>>

\* the used range: trailing blank rows are not part of what the sheet returns
RECURSIVE Used(_)
Used(s) == IF s # <<>> /\ IsBlank(s[Len(s)]) THEN Used(SubSeq(s, 1, Len(s) - 1)) ELSE s

\* the sheet extended with blank grid rows up to n rows
Padded(s, n) == [i \in 1..(IF n > Len(s) THEN n ELSE Len(s)) |-> IF i <= Len(s) THEN s[i] ELSE BlankRow]

\* number of columns get_all_values() returns for every row
Width(s) ==
    IF \E i \in 1..Len(s) : s[i].salary # <<>> THEN 4
    ELSE IF \E i \in 1..Len(s) : s[i].amount # <<>> THEN 3
    ELSE IF \E i \in 1..Len(s) : s[i].symbols # <<>> THEN 2
    ELSE IF \E i \in 1..Len(s) : s[i].date # <<>> THEN 1 ELSE 0

\* how the sheet shows a number written with value_input_option="USER_ENTERED"
CellOfNumber(v) ==
    LET mag == IF v < 0 THEN 0 - v ELSE v
        ip == NumText(mag \div 100)
        f == mag % 100
        fp == IF f = 0 THEN <<>>
              ELSE IF f % 10 = 0 THEN <<".", DigitChar(f \div 10)>>
              ELSE <<".", DigitChar(f \div 10), DigitChar(f % 10)>>
    IN (IF v < 0 THEN <<"-">> ELSE <<>>) \o ip \o fp

\* how the sheet shows a text written with value_input_option="USER_ENTERED":
\* the text is taken as if typed into the cell, so digits become a number
CellOfText(t) == IF t # <<>> /\ AllDigits(t) THEN NumText(Num(t)) ELSE t

\* SHEET.insert_row(row, idx)
InsertRowAt(s, row, idx) ==
    LET p == Padded(s, idx - 1) IN
    Used(SubSeq(p, 1, idx - 1) \o <<row>> \o SubSeq(p, idx, Len(p)))

\* SHEET.update_cell(idx, 2, symbols)
UpdateSymbols(s, idx, symbols) ==
    LET p == Padded(s, idx) IN Used([p EXCEPT ![idx].symbols = CellOfText(symbols)])

\* SHEET.update_cell(idx, 2, symbols); SHEET.update_cell(idx, 3, amount)
UpdateCells(s, idx, symbols, amount) ==
    LET p == Padded(UpdateSymbols(s, idx, symbols), idx) IN
    Used([p EXCEPT ![idx].amount = CellOfNumber(amount)])

\* SHEET.delete_rows(idx)
DeleteRowAt(s, idx) ==
    IF idx > Len(s) THEN s
    ELSE Used(SubSeq(s, 1, idx - 1) \o SubSeq(s, idx + 1, Len(s)))

(***************************************************************************)
(* Store adapter                                                           *)
(***************************************************************************)
\* one row of read_sheet's loop: does the row yield a record?
RowLoads(s, idx) ==
    /\ idx > HEADER_ROWS
    /\ Width(s) >= 2
    /\ is_date(strip(s[idx].date))
    /\ LET amt == IF Width(s) > 2 THEN safe_float(s[idx].amount) ELSE None
           sal == IF Width(s) > 3 THEN safe_float(s[idx].salary) ELSE None
       IN amt.some \/ sal.some

\* mutant: the record carries every value that parses, amount and salary alike
RowRecordBoth(s, idx) ==
    LET amt == IF Width(s) > 2 THEN safe_float(s[idx].amount) ELSE None
        sal == IF Width(s) > 3 THEN safe_float(s[idx].salary) ELSE None
    IN [date |-> strip(s[idx].date),
        symbols |-> strip(s[idx].symbols),
        row_idx |-> idx,
        keys |-> (IF sal.some THEN {"salary"} ELSE {}) \cup (IF amt.some THEN {"amount"} ELSE {}),
        amount |-> amt.v,
        salary |-> sal.v,
        id |-> s[idx].id]

\* the record e that read_sheet builds for a row; keys are the dictionary
\* keys among amount / salary that e carries
RowRecord(s, idx) ==
    LET amt == IF Width(s) > 2 THEN safe_float(s[idx].amount) ELSE None
        sal == IF Width(s) > 3 THEN safe_float(s[idx].salary) ELSE None
    IN [date |-> strip(s[idx].date),
        symbols |-> strip(s[idx].symbols),
        row_idx |-> idx,
        keys |-> IF sal.some THEN {"salary"} ELSE {"amount"},
        amount |-> IF sal.some THEN 0 ELSE amt.v,
        salary |-> IF sal.some THEN sal.v ELSE 0,
        id |-> s[idx].id]

RECURSIVE LoadedFrom(_, _)
LoadedFrom(s, idx) ==
    IF idx > Len(s) THEN <<>>
    ELSE (IF RowLoads(s, idx) THEN <<RowRecord(s, idx)>> ELSE <<>>) \o LoadedFrom(s, idx + 1)

EmptyData == [k \in {} |-> <<>>]

\* the records filed under their period keys (lines 92-93); raised = TRUE when
\* pdate(d) of line 92 raises ValueError
Filed(recs) ==
    IF \E i \in 1..Len(recs) : ~pdate(recs[i].date).ok
    THEN [raised |-> TRUE, data |-> EmptyData]
    ELSE [raised |-> FALSE,
          data |-> [k \in {PeriodKey(pdate(recs[i].date)) : i \in 1..Len(recs)} |->
                      LET InK(e) == PeriodKey(pdate(e.date)) = k
                      IN SelectSeq(recs, InK)]]

\* read_sheet() of the sheet s
read_sheet(s) ==
    IF ~SHEET THEN [raised |-> FALSE, data |-> EmptyData]
    ELSE Filed(LoadedFrom(s, 1))

\* entries.get(code, [])
Get(data, code) == IF code \in DOMAIN data THEN data[code] ELSE <<>>

\* every record of a mapping
AllRecords(data) == UNION {{data[k][i] : i \in 1..Len(data[k])} : k \in DOMAIN data}

\* the scan of push_row: the last row whose date is <= nd, stopping at the
\* first later date; rows whose cell does not parse are skipped
RECURSIVE Scan(_, _, _, _)
Scan(s, nd, i, ins) ==
    IF i > Len(s) THEN ins
    ELSE LET p == pdate(s[i].date) IN
         IF ~p.ok THEN Scan(s, nd, i + 1, ins)
         ELSE IF DateLeq(p, nd) THEN Scan(s, nd, i + 1, i)
         ELSE ins

\* mutant: the scan keeps a row only when its date is strictly earlier
RECURSIVE ScanStrict(_, _, _, _)
ScanStrict(s, nd, i, ins) ==
    IF i > Len(s) THEN ins
    ELSE LET p == pdate(s[i].date) IN
         IF ~p.ok THEN ScanStrict(s, nd, i + 1, ins)
         ELSE IF DateLeq(p, nd) /\ ~DateLeq(nd, p) THEN ScanStrict(s, nd, i + 1, i)
         ELSE ins

\* mutant: the new row goes where the last earlier row is, not after it
InsertPosOffByOne(s, nd) == Scan(s, nd, HEADER_ROWS + 1, HEADER_ROWS)
\* mutant: ties are broken in front of the rows of the same date
InsertPosBeforeTies(s, nd) == ScanStrict(s, nd, HEADER_ROWS + 1, HEADER_ROWS) + 1

\* mutant: the scan starts at the first row of the sheet
InsertPosFromTop(s, nd) == Scan(s, nd, 1, 0) + 1

\* ins + 1 of push_row
InsertPos(s, nd) == Scan(s, nd, HEADER_ROWS + 1, HEADER_ROWS) + 1

NoRow == 0   \* Python's None as a row id

\* mutant: push_row without the test of line 97
push_rowUnguarded(s, entry, id) ==
    LET nd == pdate(entry.date) IN
    IF ~nd.ok THEN [raised |-> TRUE, sheet |-> s, row |-> NoRow]
    ELSE [raised |-> FALSE,
          sheet |-> InsertRowAt(s, [date |-> entry.date, symbols |-> CellOfText(entry.symbols),
                                    amount |-> CellOfNumber(entry.amount),
                                    salary |-> <<>>, id |-> id],
                                InsertPos(s, nd)),
          row |-> InsertPos(s, nd)]

\* push_row(entry): the sheet after it and the row id returned;
\* raised = TRUE when pdate(entry["date"]) raises
push_row(s, entry, id) ==
    IF ~SHEET THEN [raised |-> FALSE, sheet |-> s, row |-> NoRow]
    ELSE
      LET nd == pdate(entry.date) IN
      IF ~nd.ok THEN [raised |-> TRUE, sheet |-> s, row |-> NoRow]
      ELSE
        LET row == [date |-> entry.date, symbols |-> CellOfText(entry.symbols),
                    amount |-> IF "amount" \in entry.keys THEN CellOfNumber(entry.amount) ELSE <<>>,
                    salary |-> IF "salary" \in entry.keys THEN CellOfNumber(entry.salary) ELSE <<>>,
                    id |-> id]
            pos == InsertPos(s, nd)
        IN [raised |-> FALSE, sheet |-> InsertRowAt(s, row, pos), row |-> pos]

\* update_row(idx, symbols, amount)
update_row(s, idx, symbols, amount) ==
    IF ~SHEET THEN s ELSE UpdateCells(s, idx, symbols, amount)

\* delete_row(idx)
delete_row(s, idx) ==
    IF SHEET THEN DeleteRowAt(s, idx) ELSE s

\* dt.date.today()
Today == [ok |-> TRUE, y |-> 2025, m |-> 3, d |-> 15]

(***************************************************************************)
(* The store adapter on its own: any sheet content, any sequence of calls  *)
(***************************************************************************)
Row(d, l, a, sal) == [date |-> d, symbols |-> l, amount |-> a, salary |-> sal, id |-> 0]

HeaderRows == <<Row(<<"D","a","t","e">>, <<"N","a","m","e">>, <<"S","u","m">>, <<"P","a","y">>),
                BlankRow,
                Row(D15, TTotal, T500, <<>>),
                BlankRow>>

SampleRows ==
    { Row(D14, TOld, T200, <<>>),        \* a transaction
      Row(D14, <<>>, <<>>, T500),        \* a salary
      Row(D16, TBob, T12c5, <<>>),       \* a transaction, comma decimal
      Row(D15, TBob, T250, T500),        \* both cells set
      Row(D15, TBob, <<>>, <<>>),        \* neither cell set
      Row(D15, TBob, TAbc, TDash),       \* neither cell parses
      Row(TTotal, TBob, T250, <<>>),     \* first cell is no date
      Row(DShort, TBob, T250, <<>>),     \* first cell parses but is no DD.MM.YYYY
      Row(DBadCal, TBob, T250, <<>>) }   \* DD.MM.YYYY that is no calendar date

MaxInitRows == 2

\* the rows after the header whose date cell parses are in date order
DateSorted(s) ==
    \A i, j \in (HEADER_ROWS + 1)..Len(s) :
        (i < j /\ pdate(s[i].date).ok /\ pdate(s[j].date).ok)
            => DateLeq(pdate(s[i].date), pdate(s[j].date))

\* pre-existing rows get the ghost identities -1, -2, ...
WithIds(data) == [i \in 1..Len(data) |-> [data[i] EXCEPT !.id = 0 - i]]

StoreInits ==
    { Used(HeaderRows \o WithIds(d)) :
        d \in { x \in UNION {[1..n -> SampleRows] : n \in 0..MaxInitRows} :
                    DateSorted(HeaderRows \o x) } }
    \cup {<<>>}

\* trail and writes are ghosts: the steps the session has been at, in order,
\* and the number of store calls made for it that changed the sheet; ins is
\* the position of a handler inside push_row: the row its scan has found
\* (0 when no insert of the session is between its scan and its write)
NoFlow == [step |-> "none", mode |-> "none", keys |-> {}, date |-> <<>>, symbols |-> <<>>,
           row |-> NoRow, old_symbols |-> <<>>, old_amount |-> 0, trail |-> <<>>, writes |-> 0,
           amount |-> 0, ins |-> 0, id |-> 0]
NoToken == [set |-> FALSE, row |-> NoRow, date |-> <<>>, old_symbols |-> <<>>,
            old_amount |-> 0, expires |-> 0, id |-> 0]
NoView == [date |-> <<>>, rows |-> {}]
\* at and txt are the step a text message found the session at and the text;
\* n is the confirmation message a pressed undo button was on (0: none); again
\* tells that the handler before was a successful undo from that same button;
\* rec is <<e>> for the record e handed to insert(record); to is the set of
\* chats a reminder was sent to; was is <<s>> for the sheet s a text handler
\* found, and an undo pressed right after a commit, on that commit's
\* confirmation, keeps it
NoLast == [h |-> "none", u |-> "none", ops |-> <<>>, reply |-> "none",
           at |-> "none", txt |-> <<>>, n |-> 0, again |-> FALSE, rec |-> <<>>, to |-> {}, was |-> <<>>]

Users == {"u1", "u2"}

Entry(d, l, k, v) == [date |-> d, symbols |-> l, keys |-> {k},
                      amount |-> IF k = "amount" THEN v ELSE 0,
                      salary |-> IF k = "salary" THEN v ELSE 0]

PushInputs ==
    { Entry(d, TIvan, "amount", 25000) : d \in {D14, D15, DBadCal} }
    \cup { Entry(D15, <<>>, "salary", 50000), Entry(D15, T007, "amount", 1250) }

Idle ==
    /\ flow = [u \in Users |-> NoFlow]
    /\ undo = [u \in Users |-> NoToken]
    /\ undo_edit = [u \in Users |-> NoToken]
    /\ notes = [u \in Users |-> {}]
    /\ view = [u \in Users |-> NoView]
    /\ chats = {}
    /\ now = 0
    /\ last = NoLast

StoreInit ==
    /\ SHEET \in BOOLEAN
    /\ sheet \in StoreInits
    /\ nextId = 1
    /\ entries = EmptyData
    /\ Idle

botVars == <<flow, undo, undo_edit, notes, view, chats, now>>

\* insert(e) has returned r (or raised)
Pushed(e, r) ==
    /\ sheet' = r.sheet
    /\ last' = [NoLast EXCEPT !.h = "push_row", !.rec = <<e>>,
                              !.ops = IF r.row = NoRow THEN <<>>
                                      ELSE <<[op |-> "insert", row |-> r.row]>>,
                              !.reply = IF r.raised THEN "raised" ELSE "none"]

\* insert(record)
StorePush(e) ==
    /\ nextId <= MaxInserts
    /\ Pushed(e, push_row(sheet, e, nextId))
    /\ nextId' = nextId + 1
    /\ UNCHANGED <<SHEET, entries, botVars>>

\* loadAll() has returned r (or raised): its result is kept as the cache
Loaded(r) ==
    /\ entries' = IF r.raised THEN entries ELSE r.data
    /\ last' = [NoLast EXCEPT !.h = "read_sheet",
                              !.reply = IF r.raised THEN "raised" ELSE "none"]

\* loadAll(), its result kept as the cache
StoreLoad ==
    /\ Loaded(read_sheet(sheet))
    /\ UNCHANGED <<SHEET, sheet, nextId, botVars>>

StoreNext ==
    \/ \E e \in PushInputs : StorePush(e)
    \/ StoreLoad

SpecStore == StoreInit /\ [][StoreNext]_vars

(***************************************************************************)
(* The bot: wizard, callbacks, undo, reload                                *)
(***************************************************************************)
TickStep == UNDO_WINDOW \div 2

BotInits ==
    { Used(HeaderRows),
      HeaderRows \o WithIds(<<Row(D14, TOld, T200, <<>>)>>) }

\* what a user may type at each step of the wizard
TextInputs(step) ==
    IF step = "date" THEN {D14, TToday, TTodayCap, DDashes, DBadCal, TIvan}
    ELSE IF step = "sym" THEN {TIvan}
    ELSE IF step = "val" THEN {T12c5, TGrouped, TAbc, TNan}
    ELSE {TIvan}

Init ==
    /\ SHEET = TRUE
    /\ sheet \in BotInits
    /\ nextId = 1
    /\ entries = EmptyData
    /\ Idle

TotalNotes == Cardinality(UNION {notes[u] : u \in Users})

Reply(h, u, ops, reply) == [NoLast EXCEPT !.h = h, !.u = u, !.ops = ops, !.reply = reply]

\* the record of a text handler run: the text txt came at the step of u's flow
Said(h, u, txt, ops, reply) ==
    [NoLast EXCEPT !.h = h, !.u = u, !.ops = ops, !.reply = reply,
                   !.at = flow[u].step, !.txt = txt, !.was = <<sheet>>]

\* the rows show_day lists (and gives a delete and an edit button) after
\* reloading: ents of lines 270-272
DayButtons(data, code, date) ==
    LET ents == Get(data, code) IN
    { [row_idx |-> ents[i].row_idx, id |-> ents[i].id] :
        i \in { j \in 1..Len(ents) : ents[j].date = date /\ "amount" \in ents[j].keys } }

\* show_day once read_sheet() has returned data: the cache is replaced, the
\* day's rows are shown
Shown(data, u, code, date) ==
    /\ entries' = data
    /\ view' = [view EXCEPT ![u] = [date |-> date, rows |-> DayButtons(data, code, date)]]

\* mutant: show_day lists the day from the cache without reloading it
show_dayCached(s, u, code, date) == Shown(entries, u, code, date)

\* show_day(msg, ctx, code, date): the cache is reloaded, the day's rows shown
show_day(s, u, code, date) == Shown(read_sheet(s).data, u, code, date)

\* mutant: auto_sync reads the sheet and keeps the cache it has
SyncedIdly(r) ==
    /\ ~r.raised
    /\ entries' = entries

\* auto_sync once read_sheet() has returned r
Synced(r) ==
    /\ ~r.raised
    /\ entries' = r.data

\* auto_sync: the periodic reload
AutoSync ==
    /\ Synced(read_sheet(sheet))
    /\ last' = Reply("auto_sync", "none", <<>>, "none")
    /\ UNCHANGED <<SHEET, sheet, nextId, flow, undo, undo_edit, notes, view, chats, now>>

\* time passes; only the time elapsed since a token was made is ever read, so
\* the clock is let run only while some undo window is still open
WindowOpen ==
    \E u \in Users : \/ undo[u].set /\ now <= undo[u].expires
                     \/ undo_edit[u].set /\ now <= undo_edit[u].expires

Tick ==
    /\ WindowOpen
    /\ now + TickStep <= MaxTime
    /\ now' = now + TickStep
    /\ last' = Reply("tick", "none", <<>>, "none")
    /\ UNCHANGED <<SHEET, sheet, nextId, entries, flow, undo, undo_edit, notes, view, chats>>

\* mutant: one session for the whole bot (bot_data in place of user_data)
AddRecShared(u) ==
    /\ flow' = [v \in Users |-> [NoFlow EXCEPT !.step = "date", !.trail = <<"date">>]]
    /\ last' = Reply("add_rec", u, <<>>, "none")
    /\ UNCHANGED <<SHEET, sheet, nextId, entries, undo, undo_edit, notes, view, chats, now>>

\* cb, "add_rec": ask_date
AddRec(u) ==
    /\ flow' = [flow EXCEPT ![u] = [NoFlow EXCEPT !.step = "date", !.trail = <<"date">>]]
    /\ last' = Reply("add_rec", u, <<>>, "none")
    /\ UNCHANGED <<SHEET, sheet, nextId, entries, undo, undo_edit, notes, view, chats, now>>

\* cb, "today_add": the button ask_date puts under the date prompt (line 424).
\* No branch of cb tests for this callback data, so cb answers the query and
\* returns at its end
TodayAdd(u) ==
    /\ flow[u].step = "date"
    /\ last' = [Reply("today_add", u, <<>>, "none") EXCEPT !.at = flow[u].step]
    /\ UNCHANGED <<SHEET, sheet, nextId, entries, flow, undo, undo_edit, notes, view, chats, now>>

\* cb, "add_<code>_<date>": the add button of the day view, then ask_name
DayAdd(u) ==
    /\ view[u].date # <<>>
    /\ flow' = [flow EXCEPT ![u] = [NoFlow EXCEPT !.step = "sym", !.mode = "add",
                                                   !.date = view[u].date, !.keys = {"date"},
                                                   !.trail = <<"sym">>]]
    /\ last' = Reply("add_day", u, <<>>, "none")
    /\ UNCHANGED <<SHEET, sheet, nextId, entries, undo, undo_edit, notes, view, chats, now>>

\* cb, "edit_<row>_<code>_<day>": the snapshot is taken from the cache
EditStart(u, b) ==
    /\ b \in view[u].rows
    /\ LET code == PeriodKey(pdate(view[u].date))
           ents == Get(entries, code)
           hits == { i \in 1..Len(ents) : ents[i].row_idx = b.row_idx }
       IN
       IF hits = {} \/ "amount" \notin ents[CHOOSE i \in hits : \A j \in hits : i <= j].keys
       THEN \* StopIteration / KeyError: the handler ends; entries[code] is a
            \* defaultdict access, so a missing key is created
            /\ entries' = IF code \in DOMAIN entries THEN entries
                          ELSE [k \in DOMAIN entries \cup {code} |->
                                    IF k = code THEN <<>> ELSE entries[k]]
            /\ last' = Reply("edit", u, <<>>, "raised")
            /\ UNCHANGED flow
       ELSE
         LET old == ents[CHOOSE i \in hits : \A j \in hits : i <= j] IN
         /\ flow' = [flow EXCEPT ![u] = [step |-> "sym", mode |-> "edit", keys |-> {"date"},
                                         date |-> view[u].date, symbols |-> <<>>,
                                         row |-> b.row_idx,
                                         old_symbols |-> old.symbols,
                                         old_amount |-> old.amount,
                                         trail |-> <<"sym">>, writes |-> 0,
                                         amount |-> 0, ins |-> 0, id |-> b.id]]
         /\ last' = Reply("edit", u, <<>>, "none")
         /\ UNCHANGED entries
    /\ UNCHANGED <<SHEET, sheet, nextId, undo, undo_edit, notes, view, chats, now>>

\* cb, "day_<code>_<day>" (a day button of the month view, which lists the
\* days of the cache) and "go_today": show_day
OpenDay(u, d) ==
    /\ \/ d = sdate(Today)
       \/ \E e \in AllRecords(entries) : e.date = d /\ "amount" \in e.keys
    /\ show_day(sheet, u, PeriodKey(pdate(d)), d)
    /\ last' = Reply("day", u, <<>>, "none")
    /\ UNCHANGED <<SHEET, sheet, nextId, flow, undo, undo_edit, notes, chats, now>>

\* cb, "confirm_del_<row>_<code>_<date>": the delete button of the day view
DayDelete(u, b) ==
    /\ b \in view[u].rows
    /\ sheet' = delete_row(sheet, b.row_idx)
    /\ show_day(sheet', u, PeriodKey(pdate(view[u].date)), view[u].date)
    /\ last' = Reply("confirm_del", u, <<[op |-> "delete", row |-> b.row_idx]>>, "none")
    /\ UNCHANGED <<SHEET, nextId, flow, undo, undo_edit, notes, chats, now>>

\* the confirmation message with its undo button, and the run_once job that
\* deletes it UNDO_WINDOW seconds later
NewNote(kind, row) ==
    [n |-> TotalNotes + 1, kind |-> kind, row |-> row, due |-> now + UNDO_WINDOW, alive |-> TRUE]

\* the message n once deleted (its job has nothing left to do)
Deleted(n) == [n EXCEPT !.alive = FALSE, !.due = 0]

\* process_text, step "date"
TextAtDate(u, txt) ==
    /\ flow[u].step = "date"
    /\ IF lower(txt) = TToday
       THEN /\ flow' = [flow EXCEPT ![u].date = sdate(Today), ![u].keys = @ \cup {"date"},
                                    ![u].step = "sym", ![u].trail = Append(@, "sym")]
            /\ last' = Said("process_text", u, txt, <<>>, "ask_name")
       ELSE IF is_date(txt)
       THEN /\ flow' = [flow EXCEPT ![u].date = txt, ![u].keys = @ \cup {"date"},
                                    ![u].step = "sym", ![u].trail = Append(@, "sym")]
            /\ last' = Said("process_text", u, txt, <<>>, "ask_name")
       ELSE /\ last' = Said("process_text", u, txt, <<>>, "bad_date")
            /\ UNCHANGED flow
    /\ UNCHANGED <<SHEET, sheet, nextId, entries, undo, undo_edit, notes, view, chats, now>>

\* process_text, step "sym"
TextAtSym(u, txt) ==
    /\ flow[u].step = "sym"
    /\ flow' = [flow EXCEPT ![u].symbols = txt, ![u].keys = @ \cup {"symbols"}, ![u].step = "val",
                             ![u].trail = Append(@, "val")]
    /\ last' = Said("process_text", u, txt, <<>>, "ask_amount")
    /\ UNCHANGED <<SHEET, sheet, nextId, entries, undo, undo_edit, notes, view, chats, now>>

\* mutant: a rejected amount sends the wizard back to the name step
RejectAmountRestart(u, txt) ==
    /\ flow' = [flow EXCEPT ![u].step = "sym", ![u].trail = Append(@, "sym")]
    /\ last' = Said("process_text", u, txt, <<>>, "need_number")
    /\ UNCHANGED <<SHEET, sheet, nextId, entries, undo, undo_edit, notes, view, chats, now>>

\* process_text, step "val", float() raised: "Нужно число"
RejectAmount(u, txt) ==
    /\ last' = Said("process_text", u, txt, <<>>, "need_number")
    /\ UNCHANGED <<SHEET, sheet, nextId, entries, flow, undo, undo_edit, notes, view, chats, now>>

\* process_text, step "val", mode "edit": update_row, reload, token, pop, show_day
CommitEdit(u, txt, val) ==
    LET f == flow[u]
        idx == f.row
        s2 == update_row(sheet, idx, f.symbols, val)
    IN
    /\ sheet' = s2
    /\ undo_edit' = [undo_edit EXCEPT ![u] =
                        [set |-> TRUE, row |-> idx, date |-> f.date,
                         old_symbols |-> f.old_symbols, old_amount |-> f.old_amount,
                         expires |-> now + UNDO_WINDOW, id |-> f.id]]
    /\ notes' = [notes EXCEPT ![u] = @ \cup {NewNote("undo_edit", idx)}]
    /\ flow' = [flow EXCEPT ![u] = NoFlow]
    /\ show_day(s2, u, PeriodKey(pdate(f.date)), f.date)
    /\ last' = Said("process_text", u, txt, <<[op |-> "update", row |-> idx]>>, "edited")
    /\ UNCHANGED <<SHEET, nextId, undo, chats, now>>

\* process_text, step "val", mode add, once push_row(flow) has returned r:
\* reload, show_day, token, pop
Added(u, txt, f, r) ==
    /\ sheet' = r.sheet
    /\ nextId' = nextId + 1
    /\ show_day(r.sheet, u, PeriodKey(pdate(f.date)), f.date)
    /\ undo' = [undo EXCEPT ![u] =
                   [NoToken EXCEPT !.set = TRUE, !.row = r.row, !.date = f.date,
                                   !.expires = now + UNDO_WINDOW, !.id = nextId]]
    /\ notes' = [notes EXCEPT ![u] = @ \cup {NewNote("undo", r.row)}]
    /\ flow' = [flow EXCEPT ![u] = NoFlow]
    /\ last' = Said("process_text", u, txt, <<[op |-> "insert", row |-> r.row]>>, "added")
    /\ UNCHANGED <<SHEET, undo_edit, chats, now>>

\* process_text, step "val", mode add: flow["amount"] = val, push_row(flow)
CommitAdd(u, txt, val) ==
    Added(u, txt, flow[u],
          push_row(sheet, [date |-> flow[u].date, symbols |-> flow[u].symbols,
                           keys |-> {"amount"}, amount |-> val, salary |-> 0], nextId))

\* process_text, step "val", float() returned nan.  The sheet client sends the
\* cell values as JSON, which has no nan: the call with the amount raises
\* and the handler ends there.  In mode "edit" update_row has written the name
\* cell by then (line 113 precedes line 114); in mode add flow["amount"] is set
\* (line 520) and insert_row writes nothing.  Without a sheet the store calls
\* return at once and the handler goes on to its confirmation message, where
\* fmt_amount(nan) raises in int(x) (line 160).
CommitNaN(u, txt) ==
    LET f == flow[u] IN
    IF f.mode = "edit"
    THEN IF SHEET
         THEN /\ f.writes < MaxFailed
              /\ sheet' = UpdateSymbols(sheet, f.row, f.symbols)
              /\ flow' = [flow EXCEPT ![u].writes = @ + 1]
              /\ last' = Said("process_text", u, txt, <<[op |-> "update_cell", row |-> f.row]>>, "raised")
              /\ UNCHANGED <<SHEET, nextId, entries, undo, undo_edit, notes, view, chats, now>>
         ELSE /\ entries' = read_sheet(sheet).data
              /\ last' = Said("process_text", u, txt, <<>>, "raised")
              /\ UNCHANGED <<SHEET, sheet, nextId, flow, undo, undo_edit, notes, view, chats, now>>
    ELSE IF SHEET
         THEN /\ flow' = [flow EXCEPT ![u].keys = @ \cup {"amount"}]
              /\ last' = Said("process_text", u, txt, <<>>, "raised")
              /\ UNCHANGED <<SHEET, sheet, nextId, entries, undo, undo_edit, notes, view, chats, now>>
         ELSE /\ flow' = [flow EXCEPT ![u].keys = @ \cup {"amount"}]
              /\ show_day(sheet, u, PeriodKey(pdate(f.date)), f.date)
              /\ last' = Said("process_text", u, txt, <<>>, "raised")
              /\ UNCHANGED <<SHEET, sheet, nextId, undo, undo_edit, notes, chats, now>>

\* process_text, step "val"
TextAtVal(u, txt) ==
    /\ flow[u].step = "val"
    /\ LET val == safe_float(txt) IN
       IF ~val.some THEN RejectAmount(u, txt)
       ELSE IF ~pdate(flow[u].date).ok
       THEN \* pdate(flow["date"]) raises ValueError: the handler ends there
            /\ last' = Said("process_text", u, txt, <<>>, "raised")
            /\ UNCHANGED <<SHEET, sheet, nextId, entries, flow, undo, undo_edit, notes, view,
                           chats, now>>
       ELSE IF val.nan THEN CommitNaN(u, txt)
       ELSE /\ TotalNotes < MaxCommits
            /\ IF flow[u].mode = "edit" THEN CommitEdit(u, txt, val.v) ELSE CommitAdd(u, txt, val.v)

\* mutant: a text that finds no flow is taken as the start of an add
TextNoFlowStarts(u, txt) ==
    /\ flow[u].step = "none"
    /\ flow' = [flow EXCEPT ![u] = [NoFlow EXCEPT !.step = "date", !.trail = <<"date">>]]
    /\ last' = Said("process_text", u, txt, <<>>, "none")
    /\ UNCHANGED <<SHEET, sheet, nextId, entries, undo, undo_edit, notes, view, chats, now>>

\* process_text with no flow: return
TextNoFlow(u, txt) ==
    /\ flow[u].step = "none"
    /\ last' = Said("process_text", u, txt, <<>>, "none")
    /\ UNCHANGED <<SHEET, sheet, nextId, entries, flow, undo, undo_edit, notes, view, chats, now>>

\* process_text(u, ctx): txt = u.message.text.strip()
ProcessText(u, txt) ==
    \/ TextNoFlow(u, strip(txt))
    \/ TextAtDate(u, strip(txt))
    \/ TextAtSym(u, strip(txt))
    \/ TextAtVal(u, strip(txt))

\* msg.delete() of the notification raises when it was deleted before
DeleteRaises(u, n) == ~n.alive

\* the record of an undo handler run from the button of message n
Pressed(h, u, n, ops, reply) ==
    [NoLast EXCEPT !.h = h, !.u = u, !.ops = ops, !.reply = reply, !.n = n.n,
                   !.again = (last.h = h /\ last.u = u /\ last.n = n.n /\ last.reply = "undone"),
                   !.was = IF last.h = "process_text" /\ last.u = u
                              /\ last.reply \in {"added", "edited"} /\ n.n = TotalNotes
                           THEN last.was ELSE <<>>]

\* mutant: a refused undo throws the token away
UndoPressForgets(u, n) ==
    /\ n \in notes[u] /\ n.kind = "undo"
    /\ LET ud == undo[u] IN
       IF ud.set /\ n.row = ud.row /\ now <= ud.expires /\ ~DeleteRaises(u, n)
       THEN /\ notes' = [notes EXCEPT ![u] = (@ \ {n}) \cup {Deleted(n)}]
            /\ sheet' = delete_row(sheet, ud.row)
            /\ show_day(sheet', u, PeriodKey(pdate(ud.date)), ud.date)
            /\ last' = Pressed("undo", u, n, <<[op |-> "delete", row |-> ud.row]>>, "undone")
            /\ UNCHANGED undo
       ELSE /\ last' = Pressed("undo", u, n, <<>>, "expired")
            /\ undo' = [undo EXCEPT ![u] = NoToken]
            /\ UNCHANGED <<sheet, entries, notes, view>>
    /\ UNCHANGED <<SHEET, nextId, flow, undo_edit, chats, now>>

\* cb, "undo_<row>": pressed on the confirmation message n
UndoPress(u, n) ==
    /\ n \in notes[u] /\ n.kind = "undo"
    /\ LET ud == undo[u] IN
       IF ud.set /\ n.row = ud.row /\ now <= ud.expires
       THEN IF DeleteRaises(u, n)
            THEN /\ last' = Pressed("undo", u, n, <<>>, "raised")
                 /\ UNCHANGED <<sheet, entries, notes, view>>
            ELSE /\ notes' = [notes EXCEPT ![u] = (@ \ {n}) \cup {Deleted(n)}]
                 /\ sheet' = delete_row(sheet, ud.row)
                 /\ show_day(sheet', u, PeriodKey(pdate(ud.date)), ud.date)
                 /\ last' = Pressed("undo", u, n, <<[op |-> "delete", row |-> ud.row]>>, "undone")
       ELSE /\ last' = Pressed("undo", u, n, <<>>, "expired")
            /\ UNCHANGED <<sheet, entries, notes, view>>
    /\ UNCHANGED <<SHEET, nextId, flow, undo, undo_edit, chats, now>>

\* cb, "undo_edit_<row>": pressed on the confirmation message n
UndoEditPress(u, n) ==
    /\ n \in notes[u] /\ n.kind = "undo_edit"
    /\ LET ud == undo_edit[u] IN
       IF ud.set /\ ud.row = n.row /\ now <= ud.expires
       THEN IF DeleteRaises(u, n)
            THEN /\ last' = Pressed("undo_edit", u, n, <<>>, "raised")
                 /\ UNCHANGED <<sheet, entries, notes, view>>
            ELSE /\ notes' = [notes EXCEPT ![u] = (@ \ {n}) \cup {Deleted(n)}]
                 /\ sheet' = update_row(sheet, n.row, ud.old_symbols, ud.old_amount)
                 /\ show_day(sheet', u, PeriodKey(pdate(ud.date)), ud.date)
                 /\ last' = Pressed("undo_edit", u, n, <<[op |-> "update", row |-> n.row]>>, "undone")
       ELSE /\ last' = Pressed("undo_edit", u, n, <<>>, "expired")
            /\ UNCHANGED <<sheet, entries, notes, view>>
    /\ UNCHANGED <<SHEET, nextId, flow, undo, undo_edit, chats, now>>

\* the run_once job: delete_message of the confirmation once it is due
JobDelete(u, n) ==
    /\ n \in notes[u] /\ n.alive /\ now >= n.due
    /\ notes' = [notes EXCEPT ![u] = (@ \ {n}) \cup {Deleted(n)}]
    /\ last' = Reply("job", u, <<>>, "none")
    /\ UNCHANGED <<SHEET, sheet, nextId, entries, flow, undo, undo_edit, view, chats, now>>

Next ==
    \/ Tick
    \/ AutoSync
    \/ \E u \in Users : AddRec(u)
    \/ \E u \in Users : DayAdd(u)
    \/ \E u \in Users : \E b \in view[u].rows : EditStart(u, b)
    \/ \E u \in Users : \E d \in {D14, D15} : OpenDay(u, d)
    \/ \E u \in Users : \E b \in view[u].rows : DayDelete(u, b)
    \/ \E u \in Users : \E txt \in TextInputs(flow[u].step) : ProcessText(u, txt)
    \/ \E u \in Users : \E n \in notes[u] : UndoPress(u, n)
    \/ \E u \in Users : \E n \in notes[u] : UndoEditPress(u, n)
    \/ \E u \in Users : \E n \in notes[u] : JobDelete(u, n)

Spec == Init /\ [][Next]_vars

\* one conversation
Solo == {"u1"}

\* the wizard alone: the sessions of one conversation, no undo, no deletion,
\* no clock
WizardNext ==
    \/ AutoSync
    \/ \E u \in Solo : AddRec(u)
    \/ \E u \in Solo : DayAdd(u)
    \/ \E u \in Solo : \E b \in view[u].rows : EditStart(u, b)
    \/ \E u \in Solo : \E d \in {D14, D15} : OpenDay(u, d)
    \/ \E u \in Solo : \E txt \in TextInputs(flow[u].step) : ProcessText(u, txt)

SpecWizard == Init /\ [][WizardNext]_vars

\* one conversation with its undo buttons, the clock and the deletion jobs;
\* the texts typed are the ones that lead to a commit
UndoTexts(step) ==
    IF step = "date" THEN {D14}
    ELSE IF step = "val" THEN {T12c5, TAbc}
    ELSE {TIvan}

UndoNext ==
    \/ Tick
    \/ \E u \in Solo : AddRec(u)
    \/ \E u \in Solo : \E b \in view[u].rows : EditStart(u, b)
    \/ \E u \in Solo : \E d \in {D14} : OpenDay(u, d)
    \/ \E u \in Solo : \E txt \in UndoTexts(flow[u].step) : ProcessText(u, txt)
    \/ \E u \in Solo : \E n \in notes[u] : UndoPress(u, n)
    \/ \E u \in Solo : \E n \in notes[u] : UndoEditPress(u, n)
    \/ \E u \in Solo : \E n \in notes[u] : JobDelete(u, n)

SpecUndo == Init /\ [][UndoNext]_vars

\* update(rowId, label, amount), called on its own
StoreUpdate(idx, symbols, amount) ==
    /\ sheet' = update_row(sheet, idx, symbols, amount)
    /\ last' = [NoLast EXCEPT !.h = "update_row", !.ops = <<[op |-> "update", row |-> idx]>>]
    /\ UNCHANGED <<SHEET, nextId, entries, botVars>>

\* delete(rowId), called on its own
StoreDelete(idx) ==
    /\ sheet' = delete_row(sheet, idx)
    /\ last' = [NoLast EXCEPT !.h = "delete_row", !.ops = <<[op |-> "delete", row |-> idx]>>]
    /\ UNCHANGED <<SHEET, nextId, entries, botVars>>

\* connect_sheet() raised at start: SHEET is None.  The worksheet exists and
\* has its rows, the program has no handle on it.
DegradedInit ==
    /\ SHEET = FALSE
    /\ sheet \in BotInits
    /\ nextId = 1
    /\ entries = EmptyData
    /\ Idle

\* what the user types at each step here
DegradedTexts(step) ==
    IF step = "date" THEN {D14, DBadCal, TAbc}
    ELSE IF step = "val" THEN {T12c5, TAbc, TNan}
    ELSE {TIvan}

\* the adapter calls and the handlers of one conversation.  The cache never
\* holds a record, so no day view has a row button: the edit and delete
\* buttons and the undo of an edit cannot be pressed.
DegradedNext ==
    \/ AutoSync
    \/ StoreLoad
    \/ \E e \in PushInputs : StorePush(e)
    \/ StoreUpdate(HEADER_ROWS + 1, TIvan, 25000)
    \/ StoreDelete(HEADER_ROWS + 1)
    \/ \E u \in Solo : AddRec(u)
    \/ \E u \in Solo : DayAdd(u)
    \/ \E u \in Solo : OpenDay(u, D15)
    \/ \E u \in Solo : \E txt \in DegradedTexts(flow[u].step) : ProcessText(u, txt)
    \/ \E u \in Solo : \E n \in notes[u] : UndoPress(u, n)

SpecDegraded == DegradedInit /\ [][DegradedNext]_vars

(***************************************************************************)
(* The start command, the main menu and the daily reminder                 *)
(***************************************************************************)
\* cmd_start once read_sheet() has returned r: bot_data is replaced by a new
\* dictionary with an empty chat set, then the issuing chat is added; when
\* read_sheet() raises nothing is assigned
Started(u, r) ==
    /\ entries' = IF r.raised THEN entries ELSE r.data
    /\ chats' = IF r.raised THEN chats ELSE {u}
    /\ last' = Reply("start", u, <<>>, IF r.raised THEN "raised" ELSE "menu")

\* cmd_start: user_data is not touched
Start(u) ==
    /\ Started(u, read_sheet(sheet))
    /\ UNCHANGED <<SHEET, sheet, nextId, flow, undo, undo_edit, notes, view, now>>

\* show_main once read_sheet() has returned r: the chat is added first
MainShown(u, r) ==
    /\ chats' = chats \cup {u}
    /\ entries' = IF r.raised THEN entries ELSE r.data
    /\ view' = IF r.raised THEN view ELSE [view EXCEPT ![u] = NoView]
    /\ last' = Reply("main", u, <<>>, IF r.raised THEN "raised" ELSE "menu")

\* cb, "main": show_main
ShowMain(u) ==
    /\ MainShown(u, read_sheet(sheet))
    /\ UNCHANGED <<SHEET, sheet, nextId, flow, undo, undo_edit, notes, now>>

\* cb, "year_<y>": show_year lists the twelve months; it reads no record
ShowYear(u) ==
    /\ view' = [view EXCEPT ![u] = NoView]
    /\ last' = Reply("year", u, <<>>, "none")
    /\ UNCHANGED <<SHEET, sheet, nextId, entries, flow, undo, undo_edit, notes, chats, now>>

\* cb, "mon_<code>" and "tgl_<code>_<half>": show_month lists the days of the
\* cache with entries.get(code, []), which adds no key
ShowMonth(u) ==
    /\ view' = [view EXCEPT ![u] = NoView]
    /\ last' = Reply("mon", u, <<>>, "none")
    /\ UNCHANGED <<SHEET, sheet, nextId, entries, flow, undo, undo_edit, notes, chats, now>>

\* show_main(push=False) once read_sheet() has returned r
BackToMain(u, r) ==
    /\ chats' = chats \cup {u}
    /\ entries' = IF r.raised THEN entries ELSE r.data
    /\ view' = IF r.raised THEN view ELSE [view EXCEPT ![u] = NoView]

\* mutant: Back gives up the wizard
BackCancels(u) ==
    /\ \/ BackToMain(u, read_sheet(sheet))
       \/ view' = [view EXCEPT ![u] = NoView] /\ UNCHANGED <<entries, chats>>
       \/ \E d \in {D14} :
            /\ \E e \in AllRecords(entries) : e.date = d /\ "amount" \in e.keys
            /\ show_day(sheet, u, PeriodKey(pdate(d)), d)
            /\ UNCHANGED chats
    /\ flow' = [flow EXCEPT ![u] = NoFlow]
    /\ last' = Reply("back", u, <<>>, "none")
    /\ UNCHANGED <<SHEET, sheet, nextId, undo, undo_edit, notes, now>>

\* cb, "back": pop_view, then the view on top of the navigation stack is
\* shown again with push=False.  The stack is not kept here: Back goes to any
\* of the views it can hold (main; year or month; a day that was listed)
Back(u) ==
    /\ \/ BackToMain(u, read_sheet(sheet))
       \/ view' = [view EXCEPT ![u] = NoView] /\ UNCHANGED <<entries, chats>>
       \/ \E d \in {D14} :
            /\ \E e \in AllRecords(entries) : e.date = d /\ "amount" \in e.keys
            /\ show_day(sheet, u, PeriodKey(pdate(d)), d)
            /\ UNCHANGED chats
    /\ last' = Reply("back", u, <<>>, "none")
    /\ UNCHANGED <<SHEET, sheet, nextId, flow, undo, undo_edit, notes, now>>

\* reminder: one message to every chat of bot_data["chats"]
Reminder ==
    /\ last' = [NoLast EXCEPT !.h = "reminder", !.to = chats]
    /\ UNCHANGED <<SHEET, sheet, nextId, entries, botVars>>

\* two conversations: start, main menu, reminder and the add wizard
StartTexts(step) ==
    IF step = "date" THEN {D14}
    ELSE IF step = "val" THEN {T12c5}
    ELSE {TIvan}

StartNext ==
    \/ Reminder
    \/ \E u \in Users : Start(u)
    \/ \E u \in Users : ShowMain(u)
    \/ \E u \in Users : AddRec(u)
    \/ \E u \in Users : \E txt \in StartTexts(flow[u].step) : ProcessText(u, txt)

SpecStart == Init /\ [][StartNext]_vars


(***************************************************************************)
(* Two conversations adding records, push_row taken in its two store       *)
(* calls: the scan of column A and the row write                           *)
(***************************************************************************)
\* mutant: handlers of different chats run side by side
LoopShared == TRUE

\* the event loop is free to start a handler or a job: no handler is inside
\* push_row.  push_row is a plain function with no await between its scan
\* (line 101) and its write (line 108), and the application is built without
\* concurrent updates (lines 702-707), so it takes one update at a time
LoopFree == \A u \in Users : flow[u].ins = 0

\* lines 99 and 108 with the position pos that the scan has found
InsertedAt(s, entry, id, pos) ==
    [raised |-> FALSE,
     sheet |-> InsertRowAt(s, [date |-> entry.date, symbols |-> CellOfText(entry.symbols),
                               amount |-> CellOfNumber(entry.amount),
                               salary |-> <<>>, id |-> id], pos),
     row |-> pos]

\* process_text, step "val", mode add, up to the scan of push_row (lines
\* 476-484, 520, 97-107)
ScanAdd(u, txt) ==
    /\ LoopFree
    /\ SHEET
    /\ flow[u].step = "val" /\ flow[u].mode # "edit"
    /\ safe_float(strip(txt)).some /\ ~safe_float(strip(txt)).nan
    /\ pdate(flow[u].date).ok
    /\ TotalNotes < MaxCommits
    /\ flow' = [flow EXCEPT ![u].keys = @ \cup {"amount"},
                            ![u].amount = safe_float(strip(txt)).v,
                            ![u].ins = InsertPos(sheet, pdate(flow[u].date))]
    /\ last' = Said("process_text", u, strip(txt), <<>>, "scanned")
    /\ UNCHANGED <<SHEET, sheet, nextId, entries, undo, undo_edit, notes, view, chats, now>>

\* the rest of that handler: insert_row at the position found, reload,
\* show_day, token, pop (lines 108-109, 521-547)
WriteAdd(u, txt) ==
    /\ flow[u].ins # 0
    /\ safe_float(strip(txt)) = Some(flow[u].amount)
    /\ Added(u, strip(txt), flow[u], InsertedAt(sheet, flow[u], nextId, flow[u].ins))

RaceTexts(step) ==
    IF step = "date" THEN {D15, D16}
    ELSE IF step = "val" THEN {T12c5}
    ELSE {TIvan}

RaceNext ==
    \/ LoopFree /\ AutoSync
    \/ \E u \in Users : LoopFree /\ AddRec(u)
    \/ \E u \in Users : \E txt \in RaceTexts(flow[u].step) :
          LoopFree /\ flow[u].step # "val" /\ ProcessText(u, txt)
    \/ \E u \in Users : \E txt \in RaceTexts("val") : ScanAdd(u, txt)
    \/ \E u \in Users : \E txt \in RaceTexts("val") : WriteAdd(u, txt)

SpecRace == Init /\ [][RaceNext]_vars


(***************************************************************************)
(* One conversation with every handler that writes the store, and the      *)
(* periodic reload                                                         *)
(***************************************************************************)
CacheTexts(step) ==
    IF step = "date" THEN {D14}
    ELSE IF step = "val" THEN {T12c5, TNan}
    ELSE {TIvan}

CacheNext ==
    \/ AutoSync
    \/ \E u \in Solo : AddRec(u)
    \/ \E u \in Solo : OpenDay(u, D14)
    \/ \E u \in Solo : \E b \in view[u].rows : EditStart(u, b)
    \/ \E u \in Solo : \E b \in view[u].rows : DayDelete(u, b)
    \/ \E u \in Solo : \E txt \in CacheTexts(flow[u].step) : ProcessText(u, txt)
    \/ \E u \in Solo : \E n \in notes[u] : UndoPress(u, n)
    \/ \E u \in Solo : \E n \in notes[u] : UndoEditPress(u, n)

SpecCache == Init /\ [][CacheNext]_vars

\* Two conversations, each with its own texts, that add, look at a day, edit,
\* delete and undo; their handlers run one at a time
PairTexts(u, step) ==
    IF step = "date" THEN (IF u = "u1" THEN {D14} ELSE {D13})
    ELSE IF step = "val" THEN (IF u = "u1" THEN {T12c5} ELSE {T200})
    ELSE (IF u = "u1" THEN {TIvan} ELSE {TBob})

PairNext ==
    \/ \E u \in Users : AddRec(u)
    \/ \E u \in Users : OpenDay(u, D14)
    \/ \E u \in Users : \E b \in view[u].rows : EditStart(u, b)
    \/ \E u \in Users : \E txt \in PairTexts(u, flow[u].step) : ProcessText(u, txt)

SpecPair == Init /\ [][PairNext]_vars

\* Two conversations: the first adds, looks at a day, edits, deletes and undoes
\* its add while the second adds records of an earlier date
ShiftNext ==
    \/ \E u \in Users : AddRec(u)
    \/ \E u \in Users : \E txt \in PairTexts(u, flow[u].step) : ProcessText(u, txt)
    \/ \E u \in Solo : OpenDay(u, D14)
    \/ \E u \in Solo : \E b \in view[u].rows : EditStart(u, b)
    \/ \E u \in Solo : \E b \in view[u].rows : DayDelete(u, b)
    \/ \E u \in Solo : \E n \in notes[u] : UndoPress(u, n)

SpecShift == Init /\ [][ShiftNext]_vars

\* Two conversations that edit the records of one day, with the periodic
\* reload; the first undoes its edit
LostNext ==
    \/ AutoSync
    \/ \E u \in Users : OpenDay(u, D14)
    \/ \E u \in Users : \E b \in view[u].rows : EditStart(u, b)
    \/ \E u \in Users : \E txt \in PairTexts(u, flow[u].step) : ProcessText(u, txt)
    \/ \E u \in Solo : \E n \in notes[u] : UndoEditPress(u, n)

SpecLost == Init /\ [][LostNext]_vars

\* One conversation that walks through the menus while a wizard is open, with
\* the periodic reload, the reminder and the undo buttons
NavTexts(step) ==
    IF step = "date" THEN {D14}
    ELSE IF step = "val" THEN {T12c5}
    ELSE {TIvan}

NavNext ==
    \/ AutoSync
    \/ Reminder
    \/ \E u \in Solo : AddRec(u)
    \/ \E u \in Solo : ShowMain(u)
    \/ \E u \in Solo : ShowYear(u)
    \/ \E u \in Solo : ShowMonth(u)
    \/ \E u \in Solo : Back(u)
    \/ \E u \in Solo : OpenDay(u, D14)
    \/ \E u \in Solo : \E b \in view[u].rows : EditStart(u, b)
    \/ \E u \in Solo : \E txt \in NavTexts(flow[u].step) : ProcessText(u, txt)
    \/ \E u \in Solo : \E n \in notes[u] : UndoPress(u, n)
    \/ \E u \in Solo : \E n \in notes[u] : UndoEditPress(u, n)

SpecNav == Init /\ [][NavNext]_vars

\* One conversation in the add wizard, with the today keyword and the today
\* button of the date prompt
TodayTexts(step) ==
    IF step = "date" THEN {TToday, TTodayCap, D14, DShort}
    ELSE IF step = "val" THEN {T12c5, T200}
    ELSE {TIvan, TBob}

TodayNext ==
    \/ \E u \in Solo : AddRec(u)
    \/ \E u \in Solo : TodayAdd(u)
    \/ \E u \in Solo : \E txt \in TodayTexts(flow[u].step) : ProcessText(u, txt)

SpecToday == Init /\ [][TodayNext]_vars

\* One conversation that looks at a day, edits and deletes, with the periodic
\* reload scheduled fairly: run_repeating runs auto_sync every 5 seconds for
\* as long as the bot runs (line 716)
SyncNext ==
    \/ AutoSync
    \/ \E u \in Solo : OpenDay(u, D14)
    \/ \E u \in Solo : \E b \in view[u].rows : EditStart(u, b)
    \/ \E u \in Solo : \E b \in view[u].rows : DayDelete(u, b)
    \/ \E u \in Solo : \E txt \in CacheTexts(flow[u].step) : ProcessText(u, txt)

SpecSync == Init /\ [][SyncNext]_vars /\ WF_vars(AutoSync)


(***************************************************************************)
(* The variant of the wizard in src/Write/Delete: router, add_rec,         *)
(* add_sal, text_handler.  Its steps are date, sym, amt and salary; it has *)
(* no edit mode and no undo.  The file does not define is_date, safe_float *)
(* and read_sheet: they are the ones of src/telegram_bot.py.               *)
(***************************************************************************)
botRest == <<SHEET, undo, undo_edit, notes, view, chats, now>>

\* app.bot_data['entries'] = read_sheet() before polling starts
WD_Init ==
    /\ SHEET = TRUE
    /\ sheet \in BotInits
    /\ nextId = 1
    /\ entries = read_sheet(sheet).data
    /\ Idle

\* add_rec: the date is asked for
WD_add_rec(u) ==
    /\ flow' = [flow EXCEPT ![u] = [NoFlow EXCEPT !.step = "date", !.mode = "rec",
                                                   !.trail = <<"date">>]]
    /\ last' = Reply("add_rec", u, <<>>, "none")
    /\ UNCHANGED <<sheet, nextId, entries, botRest>>

\* add_sal: the salary is asked for
WD_add_sal(u) ==
    /\ flow' = [flow EXCEPT ![u] = [NoFlow EXCEPT !.step = "salary", !.trail = <<"salary">>]]
    /\ last' = Reply("add_sal", u, <<>>, "none")
    /\ UNCHANGED <<sheet, nextId, entries, botRest>>

\* router, "sel_today": the name is asked for, the date is today
WD_sel_today(u) ==
    /\ flow' = [flow EXCEPT ![u] = [NoFlow EXCEPT !.step = "sym", !.date = sdate(Today),
                                                   !.keys = {"date"}, !.trail = <<"sym">>]]
    /\ last' = Reply("sel_today", u, <<>>, "none")
    /\ UNCHANGED <<sheet, nextId, entries, botRest>>

\* text_handler, steps amt and salary once the text is a float: push_row,
\* reload, pop.  push_row raises for a date that is no calendar date, and the
\* sheet client raises for nan (JSON has none); the handler ends there.
WD_Commit(u, txt, entry, val) ==
    LET r == push_row(sheet, entry, nextId) IN
    IF r.raised \/ (val.nan /\ SHEET)
    THEN /\ last' = Said("text_handler", u, txt, <<>>, "raised")
         /\ UNCHANGED <<sheet, nextId, entries, flow, botRest>>
    ELSE /\ nextId <= MaxInserts
         /\ sheet' = r.sheet
         /\ nextId' = nextId + 1
         /\ entries' = read_sheet(r.sheet).data
         /\ flow' = [flow EXCEPT ![u] = NoFlow]
         /\ last' = Said("text_handler", u, txt, <<[op |-> "insert", row |-> r.row]>>, "added")
         /\ UNCHANGED botRest

\* text_handler(update, ctx): txt = update.message.text.strip()
WD_text_handler(u, text) ==
    LET txt == strip(text)
        f == flow[u]
    IN
    IF f.step = "none"
    THEN /\ last' = Said("text_handler", u, txt, <<>>, "none")
         /\ UNCHANGED <<sheet, nextId, entries, flow, botRest>>
    ELSE IF f.step = "date"
    THEN /\ flow' = [flow EXCEPT ![u].date = IF txt # <<>> /\ is_date(txt) THEN txt
                                             ELSE sdate(Today),
                                 ![u].keys = @ \cup {"date"},
                                 ![u].step = "sym", ![u].trail = Append(@, "sym")]
         /\ last' = Said("text_handler", u, txt, <<>>, "ask_name")
         /\ UNCHANGED <<sheet, nextId, entries, botRest>>
    ELSE IF f.step = "sym"
    THEN /\ flow' = [flow EXCEPT ![u].symbols = txt, ![u].keys = @ \cup {"symbols"},
                                 ![u].step = "amt", ![u].trail = Append(@, "amt")]
         /\ last' = Said("text_handler", u, txt, <<>>, "ask_amount")
         /\ UNCHANGED <<sheet, nextId, entries, botRest>>
    ELSE IF ~safe_float(txt).some
    THEN /\ last' = Said("text_handler", u, txt, <<>>, "bad_format")
         /\ UNCHANGED <<sheet, nextId, entries, flow, botRest>>
    ELSE IF f.step = "amt"
    THEN WD_Commit(u, txt, Entry(f.date, f.symbols, "amount", safe_float(txt).v), safe_float(txt))
    ELSE WD_Commit(u, txt, Entry(sdate(Today), <<>>, "salary", safe_float(txt).v), safe_float(txt))

\* what a user may type at each step of this wizard
WD_Texts(step) ==
    IF step = "date" THEN {D14, DBadCal, DDashes, TAbc}
    ELSE IF step \in {"amt", "salary"} THEN {T12c5, TAbc, TNan}
    ELSE {TIvan}

WD_Next ==
    \/ \E u \in Users : WD_add_rec(u)
    \/ \E u \in Users : WD_add_sal(u)
    \/ \E u \in Users : WD_sel_today(u)
    \/ \E u \in Users : \E txt \in WD_Texts(flow[u].step) : WD_text_handler(u, txt)

SpecWriteDelete == WD_Init /\ [][WD_Next]_vars

(***************************************************************************)
(* Claims about the store adapter                                          *)
(***************************************************************************)
DataRows == (HEADER_ROWS + 1)..Len(sheet)
Parses(i) == pdate(sheet[i].date).ok
SameDate(i, j) ==
    /\ DateLeq(pdate(sheet[i].date), pdate(sheet[j].date))
    /\ DateLeq(pdate(sheet[j].date), pdate(sheet[i].date))

\* C1: from an empty or date-sorted store, after any sequence of inserts the
\* data rows, read in row-position order, are non-decreasing in date: both
\* the rows of the sheet and the records loadAll returns for them.
C1_InsertKeepsDateOrder ==
    /\ DateSorted(sheet)
    /\ \A e1, e2 \in AllRecords(read_sheet(sheet).data) :
           e1.row_idx < e2.row_idx => DateLeq(pdate(e1.date), pdate(e2.date))

\* an inserted row stands between two pre-existing rows of other dates
C1_Witness ==
    \E i \in DataRows :
        /\ i > HEADER_ROWS + 1 /\ i < Len(sheet)
        /\ sheet[i].id > 0 /\ sheet[i - 1].id < 0 /\ sheet[i + 1].id < 0
        /\ Parses(i - 1) /\ Parses(i) /\ Parses(i + 1)
        /\ ~SameDate(i - 1, i) /\ ~SameDate(i, i + 1)

\* C2: a row inserted with a date the store already holds is placed after
\* every existing row of that date, so rows of one date stand in insertion
\* order (ghost ids grow with insertion; pre-existing rows have negative ids).
C2_SameDateAppended ==
    \A i, j \in DataRows :
        (i < j /\ Parses(i) /\ Parses(j) /\ SameDate(i, j) /\ sheet[i].id > 0)
            => sheet[j].id > sheet[i].id

\* a pre-existing row, then two inserted rows, all of one date
C2_Witness ==
    \E i, j, k \in DataRows :
        /\ i < j /\ j < k
        /\ Parses(i) /\ Parses(j) /\ Parses(k)
        /\ SameDate(i, j) /\ SameDate(j, k)
        /\ sheet[i].id < 0 /\ sheet[j].id = 1 /\ sheet[k].id = 2

\* C3: every record loadAll returns (and every record of the cache) has
\* exactly one of amount / salary; header rows, rows whose first cell is no
\* date and rows whose amount and salary cells are both empty or unparseable
\* yield no record.
C3_ExactlyOneOfAmountSalary ==
    LET data == read_sheet(sheet).data IN
    /\ \A e \in AllRecords(data) \cup AllRecords(entries) :
           e.keys = {"amount"} \/ e.keys = {"salary"}
    /\ \A idx \in 1..Len(sheet) :
           ( \/ idx <= HEADER_ROWS
             \/ ~is_date(sheet[idx].date)
             \/ (~safe_float(sheet[idx].amount).some /\ ~safe_float(sheet[idx].salary).some) )
               => ~\E e \in AllRecords(data) : e.row_idx = idx

\* the cache holds the load of a sheet with a row whose two cells are both
\* set (loaded as salary) and a row of which neither cell parses (skipped)
C3_Witness ==
    /\ entries = read_sheet(sheet).data
    /\ \E e \in AllRecords(entries) :
           e.keys = {"salary"} /\ safe_float(sheet[e.row_idx].amount).some
    /\ \E idx \in DataRows :
           /\ is_date(sheet[idx].date)
           /\ sheet[idx].amount # <<>>
           /\ ~safe_float(sheet[idx].amount).some /\ ~safe_float(sheet[idx].salary).some

(***************************************************************************)
(* Claims about the wizard                                                 *)
(***************************************************************************)
IsPrefix(a, b) == Len(a) <= Len(b) /\ a = SubSeq(b, 1, Len(a))

\* two digits, a point, two digits, a point, four digits
IsDDMMYYYY(t) ==
    /\ Len(t) = 10
    /\ t[3] = "." /\ t[6] = "."
    /\ \A i \in {1, 2, 4, 5, 7, 8, 9, 10} : t[i] \in Digits

\* a decimal number: an optional sign, digits, and at most one "." or ","
\* with digits on one side of it at least
IsDecimal(t) ==
    LET u == IF t # <<>> /\ Head(t) \in {"+", "-"} THEN Tail(t) ELSE t IN
    /\ \E i \in 1..Len(u) : u[i] \in Digits
    /\ \A i \in 1..Len(u) : u[i] \in Digits \cup {".", ","}
    /\ Cardinality({i \in 1..Len(u) : u[i] \in {".", ","}}) <= 1

TextHandlers == {"process_text", "text_handler"}
Rejections == {"bad_date", "need_number", "bad_format"}
Commits == {"added", "edited"}
Sessions == {u \in Users : flow[u].step # "none"}

\* the steps in wizard order
StepRank(step) ==
    CASE step = "date" -> 1 [] step = "sym" -> 2 [] step = "val" -> 3 [] OTHER -> 4

\* the statement of C4 as the claim has it: the steps a session has been at
\* are a prefix of date, name, amount in add mode and of name, amount in
\* edit mode.  An add begun from a day view (mode "add") starts at the name.
C4_StepsArePrefix ==
    \A u \in Sessions :
        IsPrefix(flow[u].trail,
                 IF flow[u].mode = "edit" THEN <<"sym", "val">> ELSE <<"date", "sym", "val">>)

\* C4: the steps a session has been at are consecutive steps of date, name,
\* amount, beginning at the date (add from the menu) or at the name (add from
\* a day view, edit) and ending at the session's current step; a text message
\* keeps the step or moves it on by one, and a rejected one keeps the flow.
C4_StepsInOrder ==
    /\ [](\A u \in Sessions :
            /\ flow[u].trail \in
                 (IF flow[u].mode = "none"
                  THEN {<<"date">>, <<"date", "sym">>, <<"date", "sym", "val">>}
                  ELSE {<<"sym">>, <<"sym", "val">>})
            /\ flow[u].trail[Len(flow[u].trail)] = flow[u].step)
    /\ [][\A u \in Users :
            (last'.h = "process_text" /\ last'.u = u)
                => /\ StepRank(flow'[u].step) - StepRank(flow[u].step) \in {0, 1}
                   /\ last'.reply \in Rejections => flow'[u] = flow[u]]_vars

\* an add begun from a day view is at the amount, and its amount text was
\* just rejected
C4_Witness ==
    /\ last.h = "process_text" /\ last.reply = "need_number"
    /\ flow[last.u].mode = "add" /\ flow[last.u].trail = <<"sym", "val">>

\* C5: a text that came at the date step and is neither a DD.MM.YYYY date nor
\* the today keyword leaves the session at the date step with no field
\* collected, and no store call is made.
C5_BadDateRejected ==
    (/\ last.h \in TextHandlers /\ last.at = "date"
     /\ ~IsDDMMYYYY(last.txt) /\ lower(last.txt) # TToday)
        => /\ flow[last.u].step = "date"
           /\ flow[last.u].keys = {} /\ flow[last.u].date = <<>>
           /\ last.ops = <<>>

\* C6: a text that came at the amount step and is no decimal number changes
\* neither the flow nor the sheet nor a token, however often that happens.
C6_NonNumericRejected ==
    [][(/\ last'.h = "process_text" /\ last'.at = "val"
        /\ ~IsDecimal(last'.txt))
           => /\ flow' = flow /\ sheet' = sheet
              /\ undo' = undo /\ undo_edit' = undo_edit
              /\ last'.ops = <<>>]_vars

\* C7: a session in progress has changed nothing in the store, and a session
\* that ends has made exactly one store call that did.
C7_ExactlyOneWrite ==
    /\ [](\A u \in Sessions : flow[u].writes = 0)
    /\ [][\A u \in Users :
            (flow[u].step # "none" /\ flow'[u].step = "none")
                => flow[u].writes + Len(last'.ops) = 1]_vars

\* C8: the handler that made the terminal write leaves no flow behind, and a
\* text message that finds no flow changes neither the sheet, the cache, a
\* flow, a token nor a confirmation message.
C8_NoSessionAfterCommit ==
    [][/\ last'.reply \in Commits
          => (flow'[last'.u] = NoFlow /\ Len(last'.ops) = 1)
       /\ (last'.h = "process_text" /\ last'.at = "none")
          => UNCHANGED <<sheet, entries, flow, undo, undo_edit, notes, view>>]_vars

\* a text message found no flow, after a commit whose row is in the sheet and
\* whose token is held
C8_Witness ==
    /\ last.h = "process_text" /\ last.at = "none"
    /\ undo[last.u].set
    /\ \E i \in DataRows : sheet[i].id > 0

(***************************************************************************)
(* Claims about undo                                                       *)
(***************************************************************************)
\* the token an undo handler looks at
TokenOf(h, u) == IF h = "undo" THEN undo[u] ELSE undo_edit[u]
UndoHandlers == {"undo", "undo_edit"}

\* C9: an undo button pressed again right after its undo succeeded gets the
\* "time is up" reply and makes no store call.
C9_SecondUndoReportsExpired ==
    (last.h \in UndoHandlers /\ last.again)
        => (last.reply = "expired" /\ last.ops = <<>>)

\* C10: an undo pressed after the token's expiry is refused and makes no
\* store call; an undo pressed before the expiry from a button whose row is
\* the token's row is carried out.
C10_UndoWindow ==
    last.h \in UndoHandlers =>
        LET tok == TokenOf(last.h, last.u)
            note == CHOOSE x \in notes[last.u] : x.n = last.n
        IN /\ (tok.set /\ now > tok.expires)
                => (last.reply = "expired" /\ last.ops = <<>>)
           /\ (tok.set /\ note.row = tok.row /\ now < tok.expires)
                => (last.reply = "undone" /\ Len(last.ops) = 1)

\* C11: a conversation has one live token: an undo that is carried out is the
\* undo of the conversation's most recent write (its confirmation message is
\* the newest one); the undo button of every earlier write is refused.
C11_OnlyLatestUndoSucceeds ==
    (last.h \in UndoHandlers /\ last.reply = "undone")
        => \A x \in notes[last.u] : x.n <= last.n

\* C12: an undo pressed after its token's expiry, or from a button whose row
\* is not the token's row, gets the "time is up" reply and leaves the sheet,
\* the cache, every flow and both tokens as they were.
C12_RefusedUndoChangesNothing ==
    [][(/\ last'.h \in UndoHandlers
        /\ LET tok == TokenOf(last'.h, last'.u)
               note == CHOOSE x \in notes[last'.u] : x.n = last'.n
           IN ~tok.set \/ now > tok.expires \/ note.row # tok.row)
           => /\ last'.reply = "expired"
              /\ UNCHANGED <<sheet, entries, flow, undo, undo_edit>>]_vars

\* inside the window of the live token, the button of an earlier write with
\* another row id was pressed and refused
C12_Witness ==
    /\ last.h \in UndoHandlers /\ last.reply = "expired"
    /\ LET tok == TokenOf(last.h, last.u)
           note == CHOOSE x \in notes[last.u] : x.n = last.n
       IN tok.set /\ now <= tok.expires /\ note.row # tok.row

(***************************************************************************)
(* Claims about starting over, the unavailable store and the round trip    *)
(***************************************************************************)
Starters == {"add_rec", "add_day", "edit"}

\* the flow a start button leaves, as far as the button alone decides it
FreshFlow(h, u, f) ==
    /\ f.step = (IF h = "add_rec" THEN "date" ELSE "sym")
    /\ f.trail = <<f.step>>
    /\ f.mode = (IF h = "add_rec" THEN "none" ELSE IF h = "add_day" THEN "add" ELSE "edit")
    /\ f.date = (IF h = "add_rec" THEN <<>> ELSE view[u].date)
    /\ f.keys = (IF h = "add_rec" THEN {} ELSE {"date"})
    /\ f.symbols = <<>>
    /\ f.writes = 0
    /\ IF h = "edit" THEN \E b \in view[u].rows : f.row = b.row_idx ELSE f.row = NoRow

\* C13: an add or edit started while a flow is in progress replaces the flow:
\* the new flow is at its own first step and holds what its button gives it
\* and nothing else, the start writes nothing to the sheet, and the flow
\* thrown away has made no store call that changed the sheet.
C13_NewSessionReplacesOld ==
    [][\A u \in Users :
         (/\ last'.h \in Starters /\ last'.u = u /\ last'.reply # "raised"
          /\ flow[u].step # "none")
            => /\ FreshFlow(last'.h, u, flow'[u])
               /\ sheet' = sheet
               /\ flow[u].writes = 0]_vars

StoreCalls == {"read_sheet", "push_row", "update_row", "delete_row"}

\* C14: without a sheet handle no call changes the worksheet or raises,
\* loadAll gives the empty mapping and the cache stays empty, insert returns
\* no row id; the add wizard takes a date, a name and an amount as ever, and
\* its commit ends the flow with a token that holds no row id.
C14_UnavailableStoreNoOps ==
    /\ [](/\ entries = EmptyData
          /\ read_sheet(sheet) = [raised |-> FALSE, data |-> EmptyData]
          /\ last.h \in StoreCalls => last.reply # "raised"
          /\ last.h = "push_row" => last.ops = <<>>)
    /\ [][/\ sheet' = sheet
          /\ \A u \in Users :
               (last'.h = "process_text" /\ last'.u = u)
                 => /\ (last'.at = "date" /\ IsDDMMYYYY(last'.txt))
                         => (flow'[u].step = "sym" /\ flow'[u].date = last'.txt)
                    /\ last'.at = "sym"
                         => (flow'[u].step = "val" /\ flow'[u].symbols = last'.txt)
                    /\ (last'.at = "val" /\ IsDecimal(last'.txt) /\ pdate(flow[u].date).ok)
                         => /\ last'.reply = "added"
                            /\ flow'[u] = NoFlow
                            /\ undo'[u].set /\ undo'[u].row = NoRow]_vars

\* the wizard has committed without a sheet handle: its token holds no row
\* id, the cache is empty, and the worksheet nobody reached has a data row
C14_Witness ==
    /\ ~SHEET
    /\ last.h = "process_text" /\ last.reply = "added"
    /\ undo[last.u].set /\ undo[last.u].row = NoRow
    /\ entries = EmptyData
    /\ Len(sheet) > HEADER_ROWS

(***************************************************************************)
(* Claims about the round trip through the store                           *)
(***************************************************************************)
\* the load r holds, at row id pos, a record with the fields of e
Reproduced(e, pos, r) ==
    r.raised \/ \E x \in AllRecords(r.data) :
                    /\ x.row_idx = pos
                    /\ x.date = e.date
                    /\ x.symbols = e.symbols
                    /\ x.keys = e.keys
                    /\ x.amount = e.amount
                    /\ x.salary = e.salary

\* C15: for every record, insert(record) followed at once by loadAll() yields,
\* at the row id insert returned, a record with the same date, label and
\* amount (whenever loadAll returns at all).
C15_InsertThenLoadRoundTrips ==
    (last.h = "push_row" /\ last.ops # <<>>)
        => Reproduced(last.rec[1], last.ops[1].row, read_sheet(sheet))

(***************************************************************************)
(* Claims about the edit commit                                            *)
(***************************************************************************)
\* between the grids a and b only the label and amount cells of row idx differ
OnlyLabelAndAmount(a, b, idx) ==
    /\ Len(b) = Len(a)
    /\ \A i \in 1..Len(a) : i # idx => b[i] = a[i]
    /\ b[idx].id = a[idx].id
    /\ b[idx].date = a[idx].date
    /\ b[idx].salary = a[idx].salary

\* the token tok is for the row of session f and holds the label and amount
\* that f took from the record when the edit began
Snapshot(tok, f) ==
    /\ tok.set
    /\ tok.row = f.row
    /\ tok.old_symbols = f.old_symbols
    /\ tok.old_amount = f.old_amount

\* C16: an edit commit overwrites only the label and amount cells of the
\* target row (same row id and date, same number and order of rows, every
\* other row unchanged), and the token it creates holds the label and amount
\* the record of that row had in the store when the edit began.
C16_EditOverwritesTwoCells ==
    [][\A u \in Users :
          /\ (last'.h = "edit" /\ last'.u = u /\ last'.reply # "raised")
                => /\ flow'[u].row <= Len(sheet)
                   /\ flow'[u].old_symbols = RowRecord(sheet, flow'[u].row).symbols
                   /\ flow'[u].old_amount = RowRecord(sheet, flow'[u].row).amount
          /\ (last'.h = "process_text" /\ last'.u = u /\ last'.reply = "edited")
                => /\ OnlyLabelAndAmount(Padded(sheet, flow[u].row), Padded(sheet', flow[u].row),
                                         flow[u].row)
                   /\ Snapshot(undo_edit'[u], flow[u])]_vars

(***************************************************************************)
(* Claims about the start command and the reminder                         *)
(***************************************************************************)
\* C17: the set of reminder recipients only grows: no handler removes a chat
\* from it, the start command makes the issuing chat a recipient, and the
\* reminder is sent to every recipient; so a chat that once started the bot
\* gets every later reminder, whatever other chats do.
C17_RecipientsOnlyGrow ==
    [][/\ chats \subseteq chats'
       /\ \A u \in Users : (last'.h = "start" /\ last'.u = u /\ last'.reply # "raised")
                               => u \in chats'
       /\ last'.h = "reminder" => last'.to = chats]_vars

\* C18: the start command leaves the issuing chat without a session, so a
\* text message that follows it is not taken as the input of a wizard step.
C18_StartResetsSession ==
    [][\A u \in Users :
          /\ (last'.h = "start" /\ last'.u = u) => flow'[u] = NoFlow
          /\ (last.h = "start" /\ last.u = u /\ last'.h = "process_text" /\ last'.u = u)
                => (last'.at = "none" /\ flow'[u] = NoFlow)]_vars

(***************************************************************************)
(* Claims about the amount step                                            *)
(***************************************************************************)
\* C19: at the amount step of an add session with a calendar date, the text
\* "1 000,50" is accepted: the record is inserted with the amount 1000.50.
C19_GroupedAmountAccepted ==
    [][\A u \in Users :
          (/\ last'.h = "process_text" /\ last'.u = u
           /\ last'.at = "val" /\ last'.txt = TGrouped
           /\ flow[u].mode # "edit" /\ pdate(flow[u].date).ok)
            => /\ last'.reply = "added"
               /\ \E i \in (HEADER_ROWS + 1)..Len(sheet') :
                      /\ sheet'[i].id = nextId
                      /\ safe_float(sheet'[i].amount) = Some(100050)]_vars

(***************************************************************************)
(* Claims about the end of the undo window                                 *)
(***************************************************************************)
\* C20: an undo pressed when the clock has reached the token's expiry, at
\* that very instant or later, is rejected and writes nothing to the store.
C20_UndoAtExpiryRejected ==
    [][(/\ last'.h \in UndoHandlers
        /\ TokenOf(last'.h, last'.u).set
        /\ now >= TokenOf(last'.h, last'.u).expires)
         => (last'.reply = "expired" /\ sheet' = sheet)]_vars

(***************************************************************************)
(* Claims about what an undo leaves behind                                 *)
(***************************************************************************)
\* C21: once an undo has been carried out the conversation holds no token
\* for that write: the undo itself has discarded it.
C21_TokenDiscardedByUndo ==
    (last.h \in UndoHandlers /\ last.reply = "undone") => ~TokenOf(last.h, last.u).set

\* rows a and b load with the same label and amount
SameLabelAndAmount(a, b, idx) ==
    /\ strip(b[idx].symbols) = strip(a[idx].symbols)
    /\ safe_float(b[idx].amount) = safe_float(a[idx].amount)

\* C22: an undo carried out right after its commit, with nothing in between:
\* after the undo of an add the store is exactly what it was before the add;
\* after the undo of an edit the edited row has the label and amount it had
\* before the edit and every other row, the row's id, date and salary cell
\* and the number of rows are what they were.
C22_UndoInvertsCommit ==
    (last.h \in UndoHandlers /\ last.reply = "undone" /\ last.was # <<>>)
        => /\ last.h = "undo" => sheet = last.was[1]
           /\ last.h = "undo_edit"
                => /\ OnlyLabelAndAmount(Padded(last.was[1], last.ops[1].row),
                                         Padded(sheet, last.ops[1].row), last.ops[1].row)
                   /\ SameLabelAndAmount(Padded(last.was[1], last.ops[1].row),
                                         Padded(sheet, last.ops[1].row), last.ops[1].row)

(***************************************************************************)
(* Claims about inserts of two conversations                               *)
(***************************************************************************)
\* C23 as stated: insert is not isolated, so while one chat's insert is
\* between its scan and its write the insert of another chat, waiting at its
\* amount step, can start (and the rows can end up out of date order).
C23_InsertsInterleave ==
    \A u, v \in Users :
        (/\ u # v /\ flow[u].ins # 0
         /\ flow[v].step = "val" /\ flow[v].mode # "edit" /\ flow[v].ins = 0
         /\ TotalNotes < MaxCommits)
            => ENABLED (\E txt \in RaceTexts("val") : ScanAdd(v, txt))

\* C23, amended: the inserts of two chats do not interleave: the position an
\* insert has scanned is still the insertion position for its date when the
\* row is written, and the store's rows stay non-decreasing in date.
C23_InsertsDoNotInterleave ==
    /\ DateSorted(sheet)
    /\ \A u \in Users :
          flow[u].ins # 0 => flow[u].ins = InsertPos(sheet, pdate(flow[u].date))

\* one chat is between its scan and its write while the other chat waits at
\* its amount step with another date, a row of the other chat already there
C23_Witness ==
    \E u, v \in Users :
        /\ u # v /\ flow[u].ins # 0
        /\ flow[v].step = "val" /\ flow[v].date # flow[u].date
        /\ \E i \in (HEADER_ROWS + 1)..Len(sheet) : sheet[i].id > 0

(***************************************************************************)
(* Claims about the cache                                                  *)
(***************************************************************************)
\* the mappings a and b hold the same records for every period
SameData(a, b) == \A code \in DOMAIN a \cup DOMAIN b : Get(a, code) = Get(b, code)

\* a handler that has inserted, updated or deleted a row has just completed
WriteDone ==
    /\ last.ops # <<>>
    /\ \/ last.h = "process_text" /\ last.reply \in Commits
       \/ last.h \in UndoHandlers /\ last.reply = "undone"
       \/ last.h = "confirm_del"

\* C24: the cache changes only by being replaced with what loadAll returns
\* for the store as the handler leaves it, and when a handler that wrote the
\* store completes (wizard commit, undo, day-view delete) the cache equals
\* loadAll of the store.
C24_CacheReloadedAfterWrite ==
    /\ [](WriteDone => SameData(entries, read_sheet(sheet).data))
    /\ [][SameData(entries', entries) \/ SameData(entries', read_sheet(sheet').data)]_vars

\* a day-view delete has completed after an edit commit, rows remain
C24_Witness ==
    /\ last.h = "confirm_del"
    /\ \E n \in notes[last.u] : n.kind = "undo_edit"
    /\ entries # EmptyData
    /\ SameData(entries, read_sheet(sheet).data)

\* C25: with the periodic reload scheduled fairly, once the store is no
\* longer written the cache comes to equal loadAll of the store and stays
\* equal (whatever state of the store an earlier reload has seen).
C25_CacheConverges ==
    <>[][sheet' = sheet]_vars => <>[]SameData(entries, read_sheet(sheet).data)

\* the cache is behind the store: a handler has written a cell and ended
\* before its reload
C25_Witness ==
    /\ last.h = "process_text" /\ last.reply = "raised" /\ last.ops # <<>>
    /\ ~SameData(entries, read_sheet(sheet).data)

\* C27: at step awaiting-date the today keyword sent as text and the today
\* button of the date prompt both set the collected date to the current date
\* and move the session to awaiting-label.
C27_TodayKeywordAndButton ==
    \A u \in Users :
        (/\ last.u = u /\ last.at = "date"
         /\ \/ last.h = "today_add"
            \/ last.h = "process_text" /\ lower(last.txt) = TToday)
        => /\ flow[u].step = "sym"
           /\ flow[u].date = sdate(Today)
           /\ "date" \in flow[u].keys

\* the half of C27 that the code keeps: the keyword typed as text
C27_TodayKeyword ==
    \A u \in Users :
        (last.u = u /\ last.at = "date" /\ last.h = "process_text" /\ lower(last.txt) = TToday)
        => /\ flow[u].step = "sym"
           /\ flow[u].date = sdate(Today)
           /\ "date" \in flow[u].keys

\* the row of the store that holds the record id (0: none)
RowOf(s, id) ==
    IF \E i \in 1..Len(s) : s[i].id = id
    THEN CHOOSE i \in 1..Len(s) : s[i].id = id
    ELSE 0

\* the ids of the records in the store
Ids(s) == { s[i].id : i \in (HEADER_ROWS + 1)..Len(s) } \ {0}

\* C26: whatever the order of two users' messages, a handler run for one user
\* leaves the other user's session and undo tokens as they were; the session
\* collects the date and the label its own user typed, and the commit writes
\* the session's date and label and the amount that user typed.
C26_SessionsIsolated ==
    [][\A u \in Users :
          /\ last'.u # u => /\ flow'[u] = flow[u]
                            /\ undo'[u] = undo[u]
                            /\ undo_edit'[u] = undo_edit[u]
          /\ (last'.u = u /\ last'.h = "process_text") =>
                /\ last'.reply = "ask_name" =>
                        flow'[u].date = IF lower(last'.txt) = TToday THEN sdate(Today)
                                        ELSE last'.txt
                /\ last'.reply = "ask_amount" =>
                        flow'[u].symbols = last'.txt /\ flow'[u].date = flow[u].date
                /\ last'.reply = "added" =>
                      LET r == RowOf(sheet', nextId) IN
                      /\ r # 0
                      /\ sheet'[r].date = flow[u].date
                      /\ sheet'[r].symbols = CellOfText(flow[u].symbols)
                      /\ safe_float(sheet'[r].amount) = safe_float(last'.txt)
                /\ last'.reply = "edited" =>
                      LET r == flow[u].row IN
                      /\ Padded(sheet', r)[r].symbols = CellOfText(flow[u].symbols)
                      /\ safe_float(Padded(sheet', r)[r].amount) = safe_float(last'.txt)
      ]_vars

\* one user's add has just been committed while the other user is half way
\* through a wizard with a token of their own
C26_Witness ==
    \E u, v \in Users :
        /\ u # v
        /\ last.u = u /\ last.h = "process_text" /\ last.reply = "added"
        /\ flow[v].step = "val" /\ flow[v].symbols = TBob
        /\ undo[u].set /\ (undo[v].set \/ undo_edit[v].set)

\* C28: an add-undo within the window deletes the record that the undoing
\* conversation's wizard inserted and no other record, whatever other
\* conversations inserted or deleted above it since the commit.
C28_UndoDeletesOwnRecord ==
    [][\A u \in Users :
          (/\ last'.h = "undo" /\ last'.u = u /\ last'.reply = "undone"
           /\ undo[u].id \in Ids(sheet))
          => Ids(sheet') = Ids(sheet) \ {undo[u].id}
      ]_vars

\* C29: an edit commit or a day-view delete addressed by the row id of a
\* day-view button acts on the record that button displayed and on no other,
\* whatever other conversations inserted or deleted in between.
C29_ButtonActsOnItsRecord ==
    [][\A u \in Users :
          /\ (last'.h = "confirm_del" /\ last'.u = u) =>
                \A b \in view[u].rows :
                    (b.row_idx = last'.ops[1].row /\ b.id \in Ids(sheet))
                    => Ids(sheet') = Ids(sheet) \ {b.id}
          /\ (last'.h = "process_text" /\ last'.u = u /\ last'.reply = "edited"
               /\ flow[u].id \in Ids(sheet))
              => /\ RowOf(sheet, flow[u].id) = flow[u].row
                 /\ Ids(sheet') = Ids(sheet)
      ]_vars

\* C30: after an edit commit and the undo of it within the window, the row's
\* label and amount are the ones the row had immediately before the commit
\* wrote, so that another conversation's update of the same row between this
\* edit's start and its commit is kept.
C30_UndoKeepsOthersUpdate ==
    (/\ last.h = "undo_edit" /\ last.reply = "undone" /\ last.was # <<>>
     /\ last.ops[1].row <= Len(last.was[1]) /\ last.ops[1].row <= Len(sheet)
     /\ last.was[1][last.ops[1].row].id = sheet[last.ops[1].row].id)
    => SameLabelAndAmount(last.was[1], sheet, last.ops[1].row)

\* C31: every text accepted at the date step is a calendar date, and a
\* decimal number that comes at the amount step of a session that has passed
\* the date step commits the record and ends the session.
C31_AcceptedDateCommits ==
    (last.h = "process_text" /\ last.reply # "none") =>
        /\ (last.at = "date" /\ last.reply = "ask_name") => pdate(flow[last.u].date).ok
        /\ (last.at = "val" /\ IsDecimal(last.txt))
            => (last.reply \in Commits /\ flow[last.u] = NoFlow)

\* the part of C31 that the code keeps: a decimal number at the amount step
\* of a session whose date is a calendar date commits and ends the session
C31_ValidDateCommits ==
    [][(/\ last'.h = "process_text" /\ last'.at = "val" /\ IsDecimal(last'.txt)
        /\ pdate(flow[last'.u].date).ok)
       => (last'.reply \in Commits /\ flow'[last'.u] = NoFlow)]_vars

\* the handlers C32 names: menu navigation, the periodic reload, the
\* reminder and the undo buttons
Bystanders == {"main", "back", "year", "mon", "day", "auto_sync", "reminder", "undo", "undo_edit"}

\* C32: navigation (Back, Main, year, month and day views), the periodic
\* reload, the reminder and the undo buttons leave every session as it is,
\* step and collected fields, and a text message is processed as the input of
\* the step the session is at.
C32_BystandersKeepSession ==
    [][/\ last'.h \in Bystanders => flow' = flow
       /\ last'.h = "process_text" => last'.at = flow[last'.u].step]_vars

\* an undo has just deleted a row while a session with its label collected
\* waits for the amount
C32_Witness ==
    /\ last.h = "undo" /\ last.reply = "undone"
    /\ flow[last.u].step = "val" /\ flow[last.u].symbols = TIvan
    /\ flow[last.u].mode = "edit"

\* the reserved rows at the top of the store, blank grid rows included
HeaderOf(s) == SubSeq(Padded(s, HEADER_ROWS), 1, HEADER_ROWS)

\* C33: no wizard commit, undo or day-view delete inserts, overwrites or
\* deletes a row at a position from 1 to HEADER_ROWS: every store call is
\* addressed to a position greater than HEADER_ROWS and leaves the reserved
\* rows as they were.
C33_HeaderRowsNeverWritten ==
    [][/\ \A i \in 1..Len(last'.ops) : last'.ops[i].row > HEADER_ROWS
       /\ HeaderOf(sheet') = HeaderOf(sheet)]_vars

\* an undo has just deleted the first row under the header, and the header
\* is the one the store began with
C33_Witness ==
    /\ last.h = "undo" /\ last.reply = "undone"
    /\ last.ops[1].row = HEADER_ROWS + 1
    /\ HeaderOf(sheet) = HeaderRows
====
